---- MODULE Spec2Model ----
(***************************************************************************)
(* State-machine model of StdUnorderedMapPerfIssue.cpp: the Key type, the  *)
(* two hashers, PopulateMap, RunTest and _tmain.                           *)
(*                                                                         *)
(* Unsigned integers of 32 and 64 bits are represented exactly, as the set *)
(* of the positions of their 1 bits (bit 0 is the least significant):      *)
(*   a & b  is  a \cap b,   a | b  is  a \cup b,                           *)
(*   a << k in a w-bit type is {b + k : b \in a} \cap 0..w-1,              *)
(*   a conversion to a w-bit type is  a \cap 0..w-1,                       *)
(*   a mod 2^k is  a \cap 0..k-1.                                          *)
(* Small quantities (loop counters, map values, clock ticks) are integers. *)
(* Console output is not part of the state.                                *)
(***************************************************************************)
EXTENDS Integers, Sequences, FiniteSets

VARIABLES
    sizeBits,       \* width of std::size_t in this build (32 or 64)
    textHash,       \* std::hash<std::string> of the one text all keys share
    engineStride,   \* which deterministic generator default_random_engine is
    numIterations,  \* _tmain's numIterations (uint8)
    numElements,    \* _tmain's numElements (uint32)
    run,            \* which of the four RunTest calls of _tmain is next/active
    results,        \* the durations _tmain has received so far
    exitCode,       \* -1 while running, then _tmain's return value
    calls,          \* the RunTest instantiations called so far, in order
    durations,      \* RunTest: std::vector of per-iteration durations
    map,            \* RunTest: the MapType instance, a set of entries
    i,              \* RunTest: the uint16 loop counter
    startTime,      \* RunTest: the start timestamp of the current iteration
    InSeconds,      \* RunTest: the accumulated total
    pmap,           \* PopulateMap: its own parameter `map`
    engine,         \* PopulateMap: the state of its local random engine
    pmI,            \* PopulateMap: its uint32 loop counter `i`
    drawn,          \* the numeric fields drawn so far by the current call
    reference,      \* the numeric fields drawn by the first call of the process
    clock,          \* what std::chrono::system_clock::now() would return
    pc              \* the position of the single thread of control

vars == << sizeBits, textHash, engineStride, numIterations, numElements, run,
           results, exitCode, calls, durations, map, i, startTime, InSeconds,
           pmap, engine, pmI, drawn, reference, clock, pc >>

platformVars == << sizeBits, textHash, engineStride, numIterations, numElements >>

(***************************************************************************)
(* Program constants                                                       *)
(***************************************************************************)
\* the shift distance of HasherB and the width of Key::Datum
HalfBits == 32
\* map[key] = i % 256
ValueModulus == 256
\* the largest std::uint8_t, the type of numIterations
UINT8_MAX == 255
\* the number of values of std::uint16_t, the type of RunTest's loop counter
UINT16_RANGE == 65536

(***************************************************************************)
(* Bounds of the model                                                     *)
(***************************************************************************)
\* Spec: iteration counts 0..MaxIterations, element counts 0..MaxElements
MaxIterations == 1
MaxElements == 1
\* Spec: the system clock reads 0..MaxClock
MaxClock == 1
\* SpecQuiet: iteration counts 1..QuietIterations, element counts 0..QuietElements
QuietIterations == 2
QuietElements == 3
\* the random engine has EngineStates states and PatternBits decide its outputs
EngineStates == 4
PatternBits == 2
\* SpecWide: element counts 0..WideElements beside the largest iteration count,
\* and element counts ValueModulus..ValueModulus+WideExtra beside one iteration
WideElements == 1
WideExtra == 1
\* SpecWide: iteration counts within WideSpan of 0 and of the largest uint8
WideSpan == 1

(***************************************************************************)
(* Fixed-width unsigned arithmetic on sets of bit positions                *)
(***************************************************************************)
BitsOf(w) == 0 .. (w - 1)

Convert(v, w) == v \cap BitsOf(w)

ShiftLeft(v, k, w) == { b + k : b \in v } \cap BitsOf(w)

\* 0xFFFFFFFF
MaskLow == BitsOf(HalfBits)

\* 0xFFFFFFFF00000000
MaskHigh == BitsOf(2 * HalfBits) \ BitsOf(HalfBits)

LowHalf(v) == v \cap BitsOf(HalfBits)

HighHalf(v) == { b - HalfBits : b \in (v \ BitsOf(HalfBits)) }

(***************************************************************************)
(* Key and the hashers                                                     *)
(***************************************************************************)
Text == "all elements share the same text"

Key(datum, text) == [Datum |-> datum, Text |-> text]

KeyEq(lhs, rhs) == lhs.Datum = rhs.Datum /\ lhs.Text = rhs.Text

\* std::hash<std::string>()(key.Text): a size_t; the program hashes one text only
StdHash(text) == Convert(textHash, sizeBits)

\* HasherB without the cast: the shift done on the 32-bit Datum
HasherB_shift32(key) ==
    Convert(ShiftLeft(key.Datum, HalfBits, HalfBits)
              \cup (StdHash(key.Text) \cap MaskLow), sizeBits)

\* HasherB with the halves in HasherA's order
HasherB_asA(key) ==
    Convert((StdHash(key.Text) \cap MaskHigh) \cup key.Datum, sizeBits)

\* (static_cast<std::uint64_t>(key.Datum) << 32) | (textHash & 0xFFFFFFFF),
\* converted to the std::size_t the operator returns
HasherB(key) ==
    Convert(ShiftLeft(key.Datum, HalfBits, 2 * HalfBits)
              \cup (StdHash(key.Text) \cap MaskLow), sizeBits)

\* HasherA read as textHash & (0xFFFFFFFF00000000 | key.Datum)
HasherA_maskAfterOr(key) ==
    Convert(StdHash(key.Text) \cap (MaskHigh \cup key.Datum), sizeBits)

\* textHash & 0xFFFFFFFF00000000 | key.Datum: & binds tighter than |
HasherA(key) ==
    Convert((StdHash(key.Text) \cap MaskHigh) \cup key.Datum, sizeBits)

\* the four instantiations of RunTest, in the order _tmain calls them
RunOrder ==
    << [impl |-> "boost", hasher |-> "A"], [impl |-> "std", hasher |-> "A"],
       [impl |-> "boost", hasher |-> "B"], [impl |-> "std", hasher |-> "B"] >>

Hash(h, key) == IF h = "A" THEN HasherA(key) ELSE HasherB(key)

\* the reduction of a hash to a bucket of a table of 2^bits buckets
BucketIndex(hash, bits) == hash \cap BitsOf(bits)

(***************************************************************************)
(* The map: a set of entries, at most one per key                          *)
(***************************************************************************)
\* map.insert({key, value}): an existing entry keeps its value
MapAssign_insertOnly(m, h, key, value) ==
    IF \E e \in m : KeyEq(e.key, key)
    THEN m
    ELSE m \cup { [key |-> key, value |-> value, hash |-> Hash(h, key)] }

\* map[key] = value: operator[] finds the entry whose key compares equal, or
\* inserts one, and the assignment stores the value
MapAssign(m, h, key, value) ==
    LET found == { e \in m : KeyEq(e.key, key) }
    IN  IF found # {}
        THEN (m \ found) \cup { [e EXCEPT !.value = value] : e \in found }
        ELSE m \cup { [key |-> key, value |-> value, hash |-> Hash(h, key)] }

(***************************************************************************)
(* The random engine and the distribution                                  *)
(***************************************************************************)
\* a static engine: constructed once, its state kept between calls
EngineConstruct_static(previous) == previous

\* std::default_random_engine engine; the default seed, whatever state an
\* earlier call left behind
EngineConstruct(previous) == 0

\* one step of the engine: a deterministic function of its state
EngineNext(s) == (s + engineStride) % EngineStates

\* the distribution's result for an engine state: a 32-bit value whose bits
\* repeat the binary digits of the state
Distribution(s) ==
    { b \in BitsOf(HalfBits) : (s \div (2 ^ (b % PatternBits))) % 2 = 1 }

(***************************************************************************)
(* Values the build and the caller decide                                  *)
(***************************************************************************)
\* std::size_t is 32 or 64 bits wide, as the build targets
SizeWidths == { HalfBits, 2 * HalfBits }

\* text hashes: all zeros, all ones, the lowest bit, the highest bit, the two
\* bits around the middle, and every second bit (cut to the width of size_t)
TextHashValues ==
    { {}, BitsOf(2 * HalfBits), {0}, {2 * HalfBits - 1}, {HalfBits - 1, HalfBits},
      { b \in BitsOf(2 * HalfBits) : b % 2 = 1 } }

InitWith(widths, hashes, iterations, elements, strides) ==
    /\ sizeBits \in widths
    /\ textHash \in { Convert(h, sizeBits) : h \in hashes }
    /\ engineStride \in strides
    /\ numIterations \in iterations
    /\ numElements \in elements
    /\ run = 1
    /\ results = << >>
    /\ exitCode = -1
    /\ calls = << >>
    /\ durations = << >>
    /\ map = {}
    /\ i = 0
    /\ startTime = 0
    /\ InSeconds = 0
    /\ pmap = {}
    /\ engine = 0
    /\ pmI = 0
    /\ drawn = << >>
    /\ reference = << >>
    /\ clock = 0
    /\ pc = "main"

(***************************************************************************)
(* RunTest                                                                 *)
(***************************************************************************)
\* i <= bound
LoopCondition_inclusive(counter, bound) == counter <= bound

\* i < numIterations, i < numElements
LoopCondition(counter, bound) == counter < bound

\* ++i on the std::uint16_t counter of RunTest
Increment16(counter) == (counter + 1) % UINT16_RANGE

\* the sum of seq[first..last]; the range is halved rather than walked so that
\* a vector of 255 durations needs no deep recursion (the durations are integer
\* ticks, whose sum does not depend on the grouping)
RECURSIVE SumRange(_, _, _)
SumRange(seq, first, last) ==
    IF first > last THEN 0
    ELSE IF first = last THEN seq[first]
    ELSE LET mid == (first + last) \div 2
         IN  SumRange(seq, first, mid) + SumRange(seq, mid + 1, last)

\* std::accumulate from begin() + 1
Accumulate_skipFirst(seq, init) == init + SumRange(seq, 2, Len(seq))

\* std::accumulate(durations.begin(), durations.end(), init)
Accumulate(seq, init) == init + SumRange(seq, 1, Len(seq))

\* _tmain calls the next instantiation of RunTest, which constructs its
\* locals and reserves capacity (no entry is added by reserve)
CallRunTest ==
    /\ pc = "main"
    /\ run <= Len(RunOrder)
    /\ calls' = Append(calls, RunOrder[run])
    /\ durations' = << >>
    /\ map' = {}
    /\ i' = 0
    /\ pc' = "loop"
    /\ UNCHANGED << platformVars, run, results, exitCode, startTime, InSeconds,
                    pmap, engine, pmI, drawn, reference, clock >>

\* the loop condition holds: the iteration reads the start timestamp
IterationStart ==
    /\ pc = "loop"
    /\ LoopCondition(i, numIterations)
    /\ startTime' = clock
    /\ pc' = "call"
    /\ UNCHANGED << platformVars, run, results, exitCode, calls, durations, map,
                    i, InSeconds, pmap, engine, pmI, drawn, reference, clock >>

\* PopulateMap(numElements, map): the parameter `MapType map` is passed by
\* value, so PopulateMap works on a copy; it constructs its engine
CallPopulateMap ==
    /\ pc = "call"
    /\ pmap' = map
    /\ engine' = EngineConstruct(engine)
    /\ pmI' = 0
    /\ drawn' = << >>
    /\ pc' = "populate"
    /\ UNCHANGED << platformVars, run, results, exitCode, calls, durations, map,
                    i, startTime, InSeconds, reference, clock >>

\* one pass of PopulateMap's loop: draw, build the key, map[key] = i % 256
PopulateStep ==
    /\ pc = "populate"
    /\ LoopCondition(pmI, numElements)
    /\ LET next == EngineNext(engine)
           key == Key(Distribution(next), Text)
       IN  /\ engine' = next
           /\ pmap' = MapAssign(pmap, RunOrder[run].hasher, key, pmI % ValueModulus)
           /\ drawn' = Append(drawn, key.Datum)
           /\ reference' = IF Len(reference) = Len(drawn) /\ Len(calls) = 1 /\ i = 0
                           THEN Append(reference, key.Datum)
                           ELSE reference
    /\ pmI' = pmI + 1
    /\ UNCHANGED << platformVars, run, results, exitCode, calls, durations, map,
                    i, startTime, InSeconds, clock, pc >>

\* PopulateMap returns: its parameter is destroyed, the caller's map is as it was
PopulateReturn ==
    /\ pc = "populate"
    /\ ~ LoopCondition(pmI, numElements)
    /\ pmap' = {}
    /\ pc' = "clear"
    /\ UNCHANGED << platformVars, run, results, exitCode, calls, durations, map,
                    i, startTime, InSeconds, engine, pmI, drawn, reference, clock >>

\* map.clear()
ClearMap ==
    /\ pc = "clear"
    /\ map' = {}
    /\ pc' = "end"
    /\ UNCHANGED << platformVars, run, results, exitCode, calls, durations, i,
                    startTime, InSeconds, pmap, engine, pmI, drawn, reference,
                    clock >>

\* the end timestamp is read, the duration appended, and ++i
IterationEnd ==
    /\ pc = "end"
    /\ durations' = Append(durations, clock - startTime)
    /\ i' = Increment16(i)
    /\ pc' = "loop"
    /\ UNCHANGED << platformVars, run, results, exitCode, calls, map, startTime,
                    InSeconds, pmap, engine, pmI, drawn, reference, clock >>

\* the loop condition fails: the durations are summed
SumDurations ==
    /\ pc = "loop"
    /\ ~ LoopCondition(i, numIterations)
    /\ InSeconds' = Accumulate(durations, 0)
    /\ pc' = "return"
    /\ UNCHANGED << platformVars, run, results, exitCode, calls, durations, map,
                    i, startTime, pmap, engine, pmI, drawn, reference, clock >>

\* return InSeconds: _tmain keeps the value, RunTest's locals are destroyed
RunTestReturn ==
    /\ pc = "return"
    /\ results' = Append(results, InSeconds)
    /\ run' = run + 1
    /\ durations' = << >>
    /\ map' = {}
    /\ pc' = "main"
    /\ UNCHANGED << platformVars, exitCode, calls, i, startTime, InSeconds, pmap,
                    engine, pmI, drawn, reference, clock >>

\* after the four runs _tmain prints the summary and returns 0
MainReturn ==
    /\ pc = "main"
    /\ run > Len(RunOrder)
    /\ exitCode' = 0
    /\ pc' = "done"
    /\ UNCHANGED << platformVars, run, results, calls, durations, map, i,
                    startTime, InSeconds, pmap, engine, pmI, drawn, reference,
                    clock >>

(***************************************************************************)
(* The system clock, which the program only reads                          *)
(***************************************************************************)
\* time passes
ClockAdvance ==
    /\ pc # "done"
    /\ clock < MaxClock
    /\ clock' = clock + 1
    /\ UNCHANGED << platformVars, run, results, exitCode, calls, durations, map,
                    i, startTime, InSeconds, pmap, engine, pmI, drawn, reference,
                    pc >>

\* system_clock is not a steady clock: the system time can be set back
ClockSetBack ==
    /\ pc # "done"
    /\ \E earlier \in 0 .. (clock - 1) : clock' = earlier
    /\ UNCHANGED << platformVars, run, results, exitCode, calls, durations, map,
                    i, startTime, InSeconds, pmap, engine, pmI, drawn, reference,
                    pc >>

(***************************************************************************)
(* Specifications                                                          *)
(***************************************************************************)
NextProgram ==
    \/ CallRunTest
    \/ IterationStart
    \/ CallPopulateMap
    \/ PopulateStep
    \/ PopulateReturn
    \/ ClearMap
    \/ IterationEnd
    \/ SumDurations
    \/ RunTestReturn
    \/ MainReturn

Next ==
    \/ NextProgram
    \/ ClockAdvance
    \/ ClockSetBack

\* the program beside a system clock that advances and can be set back
Init ==
    InitWith({2 * HalfBits}, {BitsOf(2 * HalfBits)}, 0 .. MaxIterations, 0 .. MaxElements, {1})

Spec == Init /\ [][Next]_vars

\* the program alone, on every build and generator of the model
InitQuiet ==
    InitWith(SizeWidths, TextHashValues, 1 .. QuietIterations, 0 .. QuietElements,
             0 .. (EngineStates - 1))

SpecQuiet == InitQuiet /\ [][NextProgram]_vars

\* the program alone, with its arguments at the limits the code's types and
\* its modulus set; the single thread always takes its next step
InitWide ==
    \/ InitWith(SizeWidths, {BitsOf(2 * HalfBits)},
                (0 .. WideSpan) \cup ((UINT8_MAX - WideSpan) .. UINT8_MAX),
                0 .. WideElements, {1})
    \/ InitWith(SizeWidths, {BitsOf(2 * HalfBits)}, {1}, ValueModulus .. (ValueModulus + WideExtra), {1})

SpecWide == InitWide /\ [][NextProgram]_vars /\ WF_vars(NextProgram)

(***************************************************************************)
(* Properties                                                              *)
(***************************************************************************)
\* the hasher of the RunTest instantiation that is active
ActiveHasher == IF run <= Len(RunOrder) THEN RunOrder[run].hasher ELSE "none"

Distinct(seq) ==
    \A a, b \in 1 .. Len(seq) : a # b => seq[a] # seq[b]

RECURSIVE SumOf(_)
SumOf(seq) ==
    IF seq = << >> THEN 0
    ELSE SumOf(SubSeq(seq, 1, Len(seq) - 1)) + seq[Len(seq)]

\* C1: when PopulateMap(K, map) has returned inside RunTest, RunTest's map
\* holds the inserted entries: none when K = 0, exactly K when the K numeric
\* fields drawn are pairwise distinct, and never more than K.
C1_CallersMapPopulated ==
    pc = "clear" =>
        /\ Cardinality(map) <= numElements
        /\ numElements = 0 => map = {}
        /\ Distinct(drawn) => Cardinality(map) = numElements

\* C2: with a 64-bit size_t, the low 32 bits of HasherA's result are the
\* Datum and its high 32 bits are the high 32 bits of the text hash.
C2_HasherALayout ==
    \A e \in pmap :
        (ActiveHasher = "A" /\ sizeBits = 2 * HalfBits) =>
            /\ LowHalf(e.hash) = e.key.Datum
            /\ HighHalf(e.hash) = HighHalf(textHash)

\* a key whose Datum is not covered by the low half of the text hash, with a
\* text hash that has bits in both halves, has been hashed by HasherA
C2_Witness ==
    \E e \in pmap :
        /\ ActiveHasher = "A" /\ sizeBits = 2 * HalfBits
        /\ HighHalf(textHash) # {} /\ LowHalf(textHash) # {}
        /\ ~ (e.key.Datum \subseteq LowHalf(textHash))
        /\ e.key.Datum # {}

\* C3: with a 64-bit size_t, the high 32 bits of HasherB's result are the
\* Datum, no bit lost, and its low 32 bits are the text hash's low 32 bits.
C3_HasherBLayout ==
    \A e \in pmap :
        (ActiveHasher = "B" /\ sizeBits = 2 * HalfBits) =>
            /\ HighHalf(e.hash) = e.key.Datum
            /\ LowHalf(e.hash) = LowHalf(textHash)

\* a key whose Datum has its highest bit set has been hashed by HasherB, the
\* text hash having bits in both halves
C3_Witness ==
    \E e \in pmap :
        /\ ActiveHasher = "B" /\ sizeBits = 2 * HalfBits
        /\ (HalfBits - 1) \in e.key.Datum
        /\ HighHalf(textHash) # {} /\ LowHalf(textHash) # {}

\* C4: two keys with the same Text and different Datum values have different
\* hash values, under HasherA and under HasherB.
C4_HashesDistinct ==
    \A e1, e2 \in pmap :
        (e1.key.Text = e2.key.Text /\ e1.key.Datum # e2.key.Datum) =>
            e1.hash # e2.hash

C6_DurationsNonNegative ==
    /\ \A k \in 1 .. Len(durations) : durations[k] >= 0
    /\ pc = "return" => InSeconds >= 0
    /\ \A k \in 1 .. Len(results) : results[k] >= 0

\* C7: within a PopulateMap call every stored value is in 0..255, every
\* numeric field drawn so far has exactly one entry, and the value of an
\* entry is (the last running index that drew its numeric field) mod 256.
C7_ValuesAndLastWrite ==
    pc = "populate" =>
        /\ \A e \in pmap :
               /\ e.value \in 0 .. 255
               /\ \E j \in 1 .. Len(drawn) :
                      /\ drawn[j] = e.key.Datum
                      /\ \A k \in (j + 1) .. Len(drawn) : drawn[k] # e.key.Datum
                      /\ e.value = (j - 1) % 256
        /\ \A j \in 1 .. Len(drawn) :
               Cardinality({ e \in pmap : e.key.Datum = drawn[j] }) = 1

\* the running index has passed 256: the entry written at index 256 holds 0,
\* and it overwrote an earlier write to the same key
C7_Witness ==
    /\ pc = "populate"
    /\ Len(drawn) = ValueModulus + 1
    /\ \E e \in pmap :
           /\ e.key.Datum = drawn[ValueModulus + 1]
           /\ e.value = 0
           /\ \E j \in 1 .. ValueModulus : drawn[j] = e.key.Datum

\* C8: every PopulateMap call of the process draws the same sequence of
\* numeric fields as the first call did.
C8_SameSequence ==
    /\ Len(drawn) <= Len(reference)
    /\ \A k \in 1 .. Len(drawn) : drawn[k] = reference[k]

\* a later RunTest run has finished a PopulateMap call that drew at least two
\* numeric fields, not all the same
C8_Witness ==
    /\ pc = "populate"
    /\ Len(calls) >= 2
    /\ i >= 1
    /\ numElements >= 2
    /\ Len(drawn) = numElements
    /\ drawn[1] # drawn[2]

\* C9: for every table of 2^bits buckets, bits in 0..32, all keys of a run fall
\* into one bucket under HasherB, while under HasherA the bucket of a key is
\* its Datum mod 2^bits, so that different Datums differ in their bucket of
\* the table of 2^32.
C9_BucketCollisions ==
    \A bits \in 0 .. HalfBits :
        \A e1, e2 \in pmap :
            /\ ActiveHasher = "B" =>
                   BucketIndex(e1.hash, bits) = BucketIndex(e2.hash, bits)
            /\ ActiveHasher = "A" =>
                   /\ BucketIndex(e1.hash, bits) = e1.key.Datum \cap (0 .. (bits - 1))
                   /\ (bits = HalfBits /\ e1.key.Datum # e2.key.Datum) =>
                          BucketIndex(e1.hash, bits) # BucketIndex(e2.hash, bits)

\* under HasherB the map holds two keys whose hash values differ
C9_Witness ==
    /\ ActiveHasher = "B"
    /\ \E e1, e2 \in pmap : e1.key.Datum # e2.key.Datum /\ e1.hash # e2.hash

\* what holds of the loops and of _tmain at every moment
C10_Counts ==
    /\ i <= numIterations
    /\ pmI <= numElements
    /\ i < UINT16_RANGE - 1
    /\ pc = "return" => (i = numIterations /\ Len(durations) = numIterations)
    /\ pc = "clear" => (pmI = numElements /\ Len(drawn) = numElements)
    /\ calls = SubSeq(RunOrder, 1, Len(calls))
    /\ pc \in {"main", "done"} => (Len(results) = Len(calls) /\ run = Len(calls) + 1)
    /\ pc \notin {"main", "done"} => (Len(results) = Len(calls) - 1 /\ run = Len(calls))
    /\ pc = "done" => (exitCode = 0 /\ calls = RunOrder)
    /\ pc # "done" => exitCode = -1

\* C10: the program terminates: each RunTest loop ends after exactly
\* numIterations iterations, each PopulateMap loop after exactly numElements
\* insertions, and _tmain makes its four RunTest calls one after another, in
\* order, and then returns 0.
C10_Terminates == [] C10_Counts /\ <> (pc = "done")

\* _tmain has returned after four runs of 255 iterations each
C10_Witness ==
    /\ pc = "done"
    /\ numIterations = UINT8_MAX
    /\ i = UINT8_MAX
    /\ numElements >= 1
    /\ Len(results) = Len(RunOrder)

====
